---- MODULE Spec2Model ----
(***************************************************************************)
(* Model of tele-triage's application.py: the two deques (user_queue,      *)
(* to_respond_queue), the RLock/Condition pair that guards the second,     *)
(* the Flask handlers sms, triaging and verdict, and the two do_work       *)
(* worker threads started by __main__.                                     *)
(***************************************************************************)
EXTENDS Integers, Sequences, FiniteSets, TLC

\* ------------------------------------------------- constants and bounds
NumWorkers == 2        \* range(2) in __main__
NumIds == 2            \* phone numbers that text in
MaxObj == 2            \* user objects the handlers keep alive at one time
MaxQueue == 2          \* longest user_queue explored
MaxFail == 1           \* most ValueErrors the external services raise per job
NumReviewers == 1      \* browser sessions on the triage page
NumHandlers == 1       \* /verdict requests in flight at one time
MaxDrain == 3          \* most jobs queued when the drain scenario starts

Workers == 1..NumWorkers
Identities == 1..NumIds
Objs == 1..(IF MaxObj > MaxDrain THEN MaxObj ELSE MaxDrain)
Reviewers == 1..NumReviewers
Handlers == 1..NumHandlers

\* Python's None, for references (phone numbers, user objects, lock owner)
None == 0
\* Python's None where the other values are strings
PyNone == "None"

\* an empty dict
EmptyDict == [k \in {} |-> PyNone]

\* d[k] = v on a dict
DictSet(d, k, v) == [j \in (DOMAIN d) \cup {k} |-> IF j = k THEN v ELSE d[j]]

\* ------------------------------------------------------------ pure parts

triage_responses ==
  [c \in {"home", "LEVEL 1", "LEVEL 2", "LEVEL 3", "LEVEL 4", "gettest",
          "checkinlater8", "checkinlater16", "checkinlater24"} |->
     CASE c = "home" -> <<"Stay at home, rest, and take medication as necessary", FALSE>>
       [] c = "LEVEL 1" -> <<"Please seek Triage Level 1 assistance", TRUE>>
       [] c = "LEVEL 2" -> <<"Please seek Triage Level 2 assistance", TRUE>>
       [] c = "LEVEL 3" -> <<"Please seek Triage Level 3 assistance", TRUE>>
       [] c = "LEVEL 4" -> <<"Please seek Triage Level 4 assistance", TRUE>>
       [] c = "gettest" -> <<"Please get tested for COVID-19", FALSE>>
       [] c = "checkinlater8" -> <<"Please stay put and text back in 8 hours", FALSE>>
       [] c = "checkinlater16" -> <<"Please stay put and text back in 16 hours", FALSE>>
       [] c = "checkinlater24" -> <<"Please stay put and text back in 24 hours", FALSE>>]

get_triage_instructions(triage_code) ==
  IF triage_code \in DOMAIN triage_responses
  THEN triage_responses[triage_code]
  ELSE <<PyNone, PyNone>>

\* the 'triages' form values submitted: two known codes (one with, one
\* without a facility lookup) and an unknown one
TriageInputs == {"home", "LEVEL 1", "bogus"}

\* deque.append, deque.appendleft, deque.popleft (item and remainder)
append(q, x) == Append(q, x)
appendleft_tail(q, x) == Append(q, x)
appendleft(q, x) == <<x>> \o q
popleft_item_last(q) == q[Len(q)]
popleft_item(q) == Head(q)
popleft_rest_peek(q) == q
popleft_rest(q) == Tail(q)

\* One pass of the inner try block of do_work over a job's values dict.
\* fail names the external call that raises ValueError in this pass
\* ("none", "matcher", "notifier").  The result says which exception ends
\* the pass ("none" = the break after client.messages.create) and whether
\* client.messages.create was invoked.
pipeline(vals, fail) ==
  IF "triage_instructions" \notin DOMAIN vals
    THEN [exc |-> "KeyError", called |-> FALSE]
  ELSE IF "get_hospital" \notin DOMAIN vals
    THEN [exc |-> "KeyError", called |-> FALSE]
  ELSE IF vals["get_hospital"] /\ "zip_code" \notin DOMAIN vals
    THEN [exc |-> "KeyError", called |-> FALSE]
  ELSE IF vals["get_hospital"] /\ fail = "matcher"
    THEN [exc |-> "ValueError", called |-> FALSE]
  ELSE IF vals["get_hospital"] /\ "triage_code" \notin DOMAIN vals
    THEN [exc |-> "KeyError", called |-> FALSE]
  ELSE IF "phone_number" \notin DOMAIN vals
    THEN [exc |-> "KeyError", called |-> FALSE]
  ELSE IF fail = "notifier"
    THEN [exc |-> "ValueError", called |-> TRUE]
  ELSE [exc |-> "none", called |-> TRUE]

\* The local variable instructions is a str; here it is the sequence of
\* the pieces concatenated into it.  The text lines 146-153 add is the
\* heading and the block of the care centers selected for the job's zip
\* code and triage code (the matcher gives the same selection whenever it
\* is asked the same question).
facility_text(vals) ==
  <<"Please choose one of the following care centers:",
    <<"hospitals", vals["zip_code"], vals["triage_code"]>>>>

\* line 139: what a pass starts instructions from; prev is what the
\* variable held before
pass_start_carry(vals, prev) ==
  IF prev = <<>> THEN <<vals["triage_instructions"]>> ELSE prev
pass_start(vals, prev) == <<vals["triage_instructions"]>>

\* the value of instructions when the pass over vals ends (lines 139-154)
build_instructions(vals, fail, prev) ==
  IF "triage_instructions" \notin DOMAIN vals THEN prev
  ELSE IF "get_hospital" \notin DOMAIN vals THEN pass_start(vals, prev)
  ELSE IF ~vals["get_hospital"] THEN pass_start(vals, prev)
  ELSE IF "zip_code" \notin DOMAIN vals THEN pass_start(vals, prev)
  ELSE IF fail = "matcher" THEN pass_start(vals, prev)
  ELSE IF "triage_code" \notin DOMAIN vals THEN pass_start(vals, prev)
  ELSE pass_start(vals, prev) \o facility_text(vals)

\* the external calls one pass over vals can reach, i.e. where a ValueError
\* can come from
FailPoints(vals) ==
  IF "get_hospital" \in DOMAIN vals /\ vals["get_hospital"]
  THEN {"matcher", "notifier"} ELSE {"notifier"}

\* Where control goes when a pass ends with exc:
\*   none       -> break, leave the with block, back to the top of the loop
\*   ValueError -> print, time.sleep(1), next pass (lock still held)
\*   KeyError   -> the handler evaluates ke.with_traceback() with no
\*                 argument, which raises TypeError inside the handler; the
\*                 bare except of the outer try catches it and calls
\*                 work_available_condition.wait()
\*   Exception  -> anything else an external call raises: no inner handler
\*                 matches, the bare except of the outer try catches it and
\*                 calls work_available_condition.wait()
\* ("terminated" is where the thread would be had the exception left
\* do_work.)
handler_target_retry_all(exc) ==
  CASE exc = "none" -> "idle"
    [] exc = "ValueError" -> "sleeping"
    [] exc = "KeyError" -> "sleeping"
    [] exc = "Exception" -> "waiting"
handler_target_give_up(exc) ==
  CASE exc = "none" -> "idle"
    [] exc = "ValueError" -> "idle"
    [] exc = "KeyError" -> "waiting"
    [] exc = "Exception" -> "waiting"
handler_target_uncaught(exc) ==
  CASE exc = "none" -> "idle"
    [] exc = "ValueError" -> "sleeping"
    [] exc = "KeyError" -> "waiting"
    [] exc = "Exception" -> "terminated"
handler_target(exc) ==
  CASE exc = "none" -> "idle"
    [] exc = "ValueError" -> "sleeping"
    [] exc = "KeyError" -> "waiting"
    [] exc = "Exception" -> "waiting"

\* what a pass that ends with exc did with the job
pass_outcome(exc) ==
  CASE exc = "none" -> "sent"
    [] exc = "ValueError" -> "retry"
    [] exc = "KeyError" -> "abandoned"
    [] exc = "Exception" -> "crashed"

\* ----------------------------------------------------------------- state
VARIABLES
  users,             \* user_model_repo.users: phone number -> user object
  obj_uuid,          \* user.uuid of each object
  values,            \* user.values of each object (a dict)
  complete,          \* intake finished for the object
  user_queue,        \* deque of user objects awaiting triage
  to_respond_queue,  \* deque of user objects awaiting match + notify
  session,           \* per browser: session['user_uuid']
  vpc, vuser, vnum,  \* /verdict request thread: position, user, user_number
  lock,              \* owner of the RLock (a worker, or None)
  pc,                \* do_work position of each worker
  user,              \* do_work's local variable user, while the job lasts
  plan,              \* ValueErrors the external services raise for the job
  tries,             \* passes of the inner loop made so far for the job
  ncalls,            \* client.messages.create invocations so far for the job
  instructions,      \* do_work's local variable instructions, while the job lasts
  last_pass          \* the pass just made, if it delivered or hit a KeyError

webVars == <<user_queue, session, vpc, vuser, vnum>>
jobVars == <<user, plan, tries, ncalls, instructions>>
vars == <<users, obj_uuid, values, complete, user_queue, to_respond_queue,
          session, vpc, vuser, vnum, lock, pc, user, plan, tries, ncalls,
          instructions, last_pass>>

Range(q) == {q[i] : i \in DOMAIN q}

\* session['user_vals'] is a copy of user.values kept for rendering the
\* page; no handler reads it back, so a session is its user_uuid alone.

\* The user objects something still refers to.  session['user_uuid'] is a
\* phone number, not a reference.
LiveObjs ==
  ({users[x] : x \in Identities} \cup Range(user_queue)
     \cup Range(to_respond_queue) \cup {user[w] : w \in Workers}
     \cup {vuser[h] : h \in Handlers}) \ {None}

\* Python frees an object once nothing refers to it: the fields of the
\* objects that are not live in the next state are forgotten.  uu, vv, cc
\* are the fields after the action's own writes.
Store(uu, vv, cc) ==
  LET live == LiveObjs'
  IN /\ obj_uuid' = [o \in Objs |-> IF o \in live THEN uu[o] ELSE None]
     /\ values' = [o \in Objs |-> IF o \in live THEN vv[o] ELSE EmptyDict]
     /\ complete' = [o \in Objs |-> IF o \in live THEN cc[o] ELSE FALSE]

Keep == Store(obj_uuid, values, complete)

\* last_pass when the step just taken was no such pass
NoPass == [w |-> None, result |-> "none", tries |-> 0, plan |-> 0,
           called |-> FALSE, ncalls |-> 0, body |-> <<>>]

Init ==
  /\ users = [x \in Identities |-> None]
  /\ obj_uuid = [o \in Objs |-> None]
  /\ values = [o \in Objs |-> EmptyDict]
  /\ complete = [o \in Objs |-> FALSE]
  /\ user_queue = <<>>
  /\ to_respond_queue = <<>>
  /\ session = [r \in Reviewers |-> None]
  /\ vpc = [h \in Handlers |-> "idle"]
  /\ vuser = [h \in Handlers |-> None]
  /\ vnum = [h \in Handlers |-> None]
  /\ lock = None
  /\ pc = [w \in Workers |-> "idle"]
  /\ user = [w \in Workers |-> None]
  /\ plan = [w \in Workers |-> 0]
  /\ tries = [w \in Workers |-> 0]
  /\ ncalls = [w \in Workers |-> 0]
  /\ instructions = [w \in Workers |-> <<>>]
  /\ last_pass = NoPass

\* ------------------------------------------- the user model repository
\* UserModelRepository.get_or_create: the stored object, or a new one
NeedsNew(us, x) == us[x] = None
FreeObjs == Objs \ LiveObjs
CanCreate == Cardinality(LiveObjs) < MaxObj
NewObj == CHOOSE o \in FreeObjs : \A p \in FreeObjs : o <= p

\* UserModelRepository.delete
repo_delete(us, x) == [us EXCEPT ![x] = None]

\* the answers phone number 1 gives include a zip code, the others' do not
AnswersHaveZip(x) == x = 1

\* --------------------------------------------------------- /sms handler
\* restart: the body is 'RESTART'.  cont and zip are what the intake
\* engine makes of the message: whether questions remain, and whether the
\* answers collected include a zip code.  A message that neither creates
\* nor completes an intake leaves the modelled state as it is.
Sms(x, restart, cont, zip) ==
  LET us1 == IF restart THEN repo_delete(users, x) ELSE users
      new == NeedsNew(us1, x)
      o == IF new THEN NewObj ELSE us1[x]
      done == ~new /\ complete[o]
      goOn == IF restart \/ new \/ done THEN TRUE ELSE cont
      uu == IF new THEN [obj_uuid EXCEPT ![o] = x] ELSE obj_uuid
      vv == IF new THEN [values EXCEPT ![o] = EmptyDict] ELSE values
      cc == IF new THEN [complete EXCEPT ![o] = FALSE] ELSE complete
  IN /\ new => CanCreate
     /\ users' = [us1 EXCEPT ![x] = o]
     /\ last_pass' = NoPass
     /\ UNCHANGED <<to_respond_queue, session, vpc, vuser, vnum, lock, pc,
                    jobVars>>
     /\ IF goOn
        THEN /\ user_queue' = user_queue
             /\ Store(uu, vv, cc)
        ELSE /\ Len(user_queue) < MaxQueue
             /\ user_queue' = append(user_queue, o)
             /\ Store(uu,
                      [vv EXCEPT ![o] =
                         IF zip THEN DictSet(vv[o], "zip_code", "zip") ELSE vv[o]],
                      [cc EXCEPT ![o] = TRUE])

\* ------------------------------------------------------ /triage handler
\* lines 57-61: a browser without a patient takes the head of user_queue
Triaging(r) ==
  /\ Len(user_queue) > 0 \/ session[r] # None
  /\ session[r] = None
  /\ user_queue' = Tail(user_queue)
  /\ session' = [session EXCEPT ![r] = obj_uuid[Head(user_queue)]]
  /\ last_pass' = NoPass
  /\ UNCHANGED <<users, to_respond_queue, vpc, vuser, vnum, lock, pc, jobVars>>
  /\ Keep

\* ----------------------------------------------------- /verdict handler
\* lines 88-99 when get_triage_instructions gives None: the requeue.
\* users[user_number] raises KeyError for a number the repository does not
\* hold; the request then fails, and saved says whether the cleared
\* session still reaches the browser.
VerdictRequeue(h, r, triage_code, user_number, saved) ==
  /\ vpc[h] = "idle"
  /\ get_triage_instructions(triage_code)[1] = PyNone
  /\ IF users[user_number] = None
     THEN /\ session' = IF saved THEN [session EXCEPT ![r] = None] ELSE session
          /\ user_queue' = user_queue
     ELSE /\ Len(user_queue) < MaxQueue
          /\ session' = [session EXCEPT ![r] = None]
          /\ user_queue' = appendleft(user_queue, users[user_number])
  /\ last_pass' = NoPass
  /\ UNCHANGED <<users, to_respond_queue, vpc, vuser, vnum, lock, pc, jobVars>>
  /\ Keep

\* lines 88-106 when a disposition exists: get_or_create and the four
\* writes into user.values
VerdictPrepare(h, r, triage_code, user_number) ==
  LET res == get_triage_instructions(triage_code)
      new == NeedsNew(users, user_number)
      o == IF new THEN NewObj ELSE users[user_number]
      v0 == IF new THEN EmptyDict ELSE values[o]
      v1 == DictSet(v0, "phone_number", user_number)
      v2 == DictSet(v1, "triage_code", triage_code)
      v3 == DictSet(v2, "triage_instructions", res[1])
      v4 == DictSet(v3, "get_hospital", res[2])
  IN /\ vpc[h] = "idle"
     /\ res[1] # PyNone
     /\ new => CanCreate
     /\ session' = [session EXCEPT ![r] = None]
     /\ users' = [users EXCEPT ![user_number] = o]
     /\ vpc' = [vpc EXCEPT ![h] = "enqueue"]
     /\ vuser' = [vuser EXCEPT ![h] = o]
     /\ vnum' = [vnum EXCEPT ![h] = user_number]
     /\ last_pass' = NoPass
     /\ UNCHANGED <<user_queue, to_respond_queue, lock, pc, jobVars>>
     /\ Store(IF new THEN [obj_uuid EXCEPT ![o] = user_number] ELSE obj_uuid,
              [values EXCEPT ![o] = v4],
              IF new THEN [complete EXCEPT ![o] = FALSE] ELSE complete)

\* Condition.notify(): wakes one thread waiting in wait(), if there is one
notify(pcs) ==
  IF \E w \in Workers : pcs[w] = "waiting"
  THEN {[pcs EXCEPT ![w] = "notified"] : w \in {v \in Workers : pcs[v] = "waiting"}}
  ELSE {pcs}

\* lines 107-109: with work_available_condition: append, notify
VerdictEnqueue(h) ==
  /\ vpc[h] = "enqueue"
  /\ lock = None
  /\ to_respond_queue' = append(to_respond_queue, vuser[h])
  /\ pc' \in notify(pc)
  /\ vpc' = [vpc EXCEPT ![h] = "delete"]
  /\ last_pass' = NoPass
  /\ UNCHANGED <<users, user_queue, session, vuser, vnum, lock, jobVars>>
  /\ Keep

\* line 110: user_model_repo.delete(user_number), and the request ends
VerdictDelete(h) ==
  /\ vpc[h] = "delete"
  /\ users' = repo_delete(users, vnum[h])
  /\ vpc' = [vpc EXCEPT ![h] = "idle"]
  /\ vuser' = [vuser EXCEPT ![h] = None]
  /\ vnum' = [vnum EXCEPT ![h] = None]
  /\ last_pass' = NoPass
  /\ UNCHANGED <<user_queue, to_respond_queue, session, lock, pc, jobVars>>
  /\ Keep

\* --------------------------------------------------------------- do_work
\* the worker holds the RLock from the with statement until it leaves the
\* block or calls wait()
HoldsLock(p) == p \in {"pipeline", "sleeping"}

\* lines 134-136 on a non-empty deque: take the lock, popleft
Dequeue(w) ==
  /\ pc[w] = "idle"
  /\ lock = None
  /\ to_respond_queue # <<>>
  /\ user' = [user EXCEPT ![w] = popleft_item(to_respond_queue)]
  /\ to_respond_queue' = popleft_rest(to_respond_queue)
  /\ \E k \in 0..MaxFail : plan' = [plan EXCEPT ![w] = k]
  /\ tries' = [tries EXCEPT ![w] = 0]
  /\ ncalls' = [ncalls EXCEPT ![w] = 0]
  /\ instructions' = [instructions EXCEPT ![w] = <<>>]
  /\ pc' = [pc EXCEPT ![w] = "pipeline"]
  /\ lock' = w
  /\ last_pass' = NoPass
  /\ UNCHANGED <<users, webVars>>
  /\ Keep

\* lines 134-136 and 162-163 on an empty deque: popleft raises IndexError,
\* the bare except calls wait(), which releases the lock
DequeueEmpty(w) ==
  /\ pc[w] = "idle"
  /\ lock = None
  /\ to_respond_queue = <<>>
  /\ pc' = [pc EXCEPT ![w] = "waiting"]
  /\ last_pass' = NoPass
  /\ UNCHANGED <<users, webVars, to_respond_queue, lock, jobVars>>
  /\ Keep

\* lines 138-161 (and 162-163 when the KeyError handler raises): one pass.
\* When the pass ends the job, nothing reads user or instructions before
\* lines 136 and 139 assign them again: the worker's reference, its
\* counters and the text are dropped here.
Pass(w) ==
  /\ pc[w] = "pipeline"
  /\ \E fail \in (IF tries[w] < plan[w] THEN FailPoints(values[user[w]])
                                        ELSE {"none"}) :
       LET res == pipeline(values[user[w]], fail)
           target == handler_target(res.exc)
           held == HoldsLock(target)
           n == IF res.called THEN ncalls[w] + 1 ELSE ncalls[w]
           ins == build_instructions(values[user[w]], fail, instructions[w])
       IN /\ pc' = [pc EXCEPT ![w] = target]
          /\ lock' = IF held THEN w ELSE None
          /\ tries' = [tries EXCEPT ![w] = IF held THEN @ + 1 ELSE 0]
          /\ ncalls' = [ncalls EXCEPT ![w] = IF held THEN n ELSE 0]
          /\ instructions' = [instructions EXCEPT ![w] = IF held THEN ins ELSE <<>>]
          /\ user' = [user EXCEPT ![w] = IF held THEN @ ELSE None]
          /\ plan' = [plan EXCEPT ![w] = IF held THEN @ ELSE 0]
          /\ last_pass' = IF res.exc = "ValueError" THEN NoPass
                          ELSE [w |-> w, result |-> pass_outcome(res.exc),
                                tries |-> tries[w] + 1, plan |-> plan[w],
                                called |-> res.called, ncalls |-> n,
                                body |-> IF res.called THEN ins ELSE <<>>]
  /\ UNCHANGED <<users, webVars, to_respond_queue>>
  /\ Keep

\* lines 138-154 and 162-163: a pass in which an external call that the
\* job's values let it reach raises something that is neither ValueError
\* nor KeyError (the services' own exception types, a TypeError on a
\* malformed hospital record).  Kept out of Pass, whose failures are the
\* planned ValueErrors; the job is dropped as after a KeyError.
PassOther(w) ==
  /\ pc[w] = "pipeline"
  /\ \E fail \in FailPoints(values[user[w]]) :
       pipeline(values[user[w]], fail).exc = "ValueError"
  /\ pc' = [pc EXCEPT ![w] = handler_target("Exception")]
  /\ lock' = None
  /\ tries' = [tries EXCEPT ![w] = 0]
  /\ ncalls' = [ncalls EXCEPT ![w] = 0]
  /\ instructions' = [instructions EXCEPT ![w] = <<>>]
  /\ user' = [user EXCEPT ![w] = None]
  /\ plan' = [plan EXCEPT ![w] = 0]
  /\ last_pass' = [w |-> w, result |-> pass_outcome("Exception"),
                   tries |-> tries[w] + 1, plan |-> plan[w],
                   called |-> FALSE, ncalls |-> ncalls[w], body |-> <<>>]
  /\ UNCHANGED <<users, webVars, to_respond_queue>>
  /\ Keep

\* line 158: time.sleep(1) returns
SleepDone(w) ==
  /\ pc[w] = "sleeping"
  /\ pc' = [pc EXCEPT ![w] = "pipeline"]
  /\ last_pass' = NoPass
  /\ UNCHANGED <<users, webVars, to_respond_queue, lock, jobVars>>
  /\ Keep

\* Where do_work continues when wait() has returned: the except clause and
\* the with block end, and while True starts over at line 134.
after_wait_resume == "pipeline"
after_wait == "idle"

\* line 163: a notified worker re-acquires the lock, wait() returns, the
\* with block ends and releases it
Wake(w) ==
  /\ pc[w] = "notified"
  /\ lock = None
  /\ pc' = [pc EXCEPT ![w] = after_wait]
  /\ last_pass' = NoPass
  /\ UNCHANGED <<users, webVars, to_respond_queue, lock, jobVars>>
  /\ Keep

\* line 163: threading.Condition.wait() returning although no notify() chose
\* this thread.  CPython's Condition does not do this; the step is kept out
\* of Next and used where a property has to hold even if it happened.
SpuriousWake(w) ==
  /\ pc[w] = "waiting"
  /\ pc' = [pc EXCEPT ![w] = "notified"]
  /\ last_pass' = NoPass
  /\ UNCHANGED <<users, webVars, to_respond_queue, lock, jobVars>>
  /\ Keep

WorkerStep(w) ==
  \/ Dequeue(w)
  \/ DequeueEmpty(w)
  \/ Pass(w)
  \/ SleepDone(w)
  \/ Wake(w)

\* ------------------------------------------------------ the whole program
Next ==
  \/ \E x \in Identities, restart \in BOOLEAN, cont \in BOOLEAN :
       Sms(x, restart, cont, AnswersHaveZip(x))
  \/ \E r \in Reviewers : Triaging(r)
  \/ \E h \in Handlers, r \in Reviewers, c \in TriageInputs, x \in Identities,
        saved \in BOOLEAN : VerdictRequeue(h, r, c, x, saved)
  \/ \E h \in Handlers, r \in Reviewers, c \in TriageInputs, x \in Identities :
       VerdictPrepare(h, r, c, x)
  \/ \E h \in Handlers : VerdictEnqueue(h)
  \/ \E h \in Handlers : VerdictDelete(h)
  \/ \E w \in Workers : WorkerStep(w)

Spec == Init /\ [][Next]_vars

TypeOK ==
  /\ lock \in Workers \cup {None}
  /\ \A w \in Workers : pc[w] \in {"idle", "pipeline", "sleeping", "waiting", "notified"}
  /\ \A w \in Workers : HoldsLock(pc[w]) <=> lock = w
  /\ \A w \in Workers : HoldsLock(pc[w]) <=> user[w] # None
  /\ \A w \in Workers : tries[w] <= plan[w]

\* ------------------------------------------- the dispatch path by itself
\* The repository after the phone numbers in S finished their intake, one
\* after the other, and nobody has opened the triage page yet.
Rank(S, x) == Cardinality({y \in S : y <= x})
Owner(S, o) == CHOOSE x \in S : Rank(S, x) = o

IntakeDone(S) ==
  /\ users = [x \in Identities |-> IF x \in S THEN Rank(S, x) ELSE None]
  /\ obj_uuid = [o \in Objs |-> IF o <= Cardinality(S) THEN Owner(S, o) ELSE None]
  /\ values = [o \in Objs |->
                 IF o <= Cardinality(S) /\ AnswersHaveZip(Owner(S, o))
                 THEN DictSet(EmptyDict, "zip_code", "zip") ELSE EmptyDict]
  /\ complete = [o \in Objs |-> o <= Cardinality(S)]
  /\ user_queue = [i \in 1..Cardinality(S) |-> i]

DispatchInit ==
  /\ \E S \in SUBSET Identities :
       /\ Cardinality(S) <= MaxObj
       /\ Cardinality(S) <= MaxQueue
       /\ IntakeDone(S)
  /\ to_respond_queue = <<>>
  /\ session = [r \in Reviewers |-> None]
  /\ vpc = [h \in Handlers |-> "idle"]
  /\ vuser = [h \in Handlers |-> None]
  /\ vnum = [h \in Handlers |-> None]
  /\ lock = None
  /\ pc = [w \in Workers |-> "idle"]
  /\ user = [w \in Workers |-> None]
  /\ plan = [w \in Workers |-> 0]
  /\ tries = [w \in Workers |-> 0]
  /\ ncalls = [w \in Workers |-> 0]
  /\ instructions = [w \in Workers |-> <<>>]
  /\ last_pass = NoPass

\* verdicts with a disposition, and the workers
DispatchNext ==
  \/ \E h \in Handlers, r \in Reviewers, c \in TriageInputs, x \in Identities :
       VerdictPrepare(h, r, c, x)
  \/ \E h \in Handlers : VerdictEnqueue(h)
  \/ \E h \in Handlers : VerdictDelete(h)
  \/ \E w \in Workers : WorkerStep(w)

DispatchSpec == DispatchInit /\ [][DispatchNext]_vars

\* --------------------------------------------------- draining a full queue
\* What /verdict leaves in user.values for a disposition code
Disposed(x, triage_code, zip) ==
  LET res == get_triage_instructions(triage_code)
      v0 == IF zip THEN DictSet(EmptyDict, "zip_code", "zip") ELSE EmptyDict
      v1 == DictSet(v0, "phone_number", x)
      v2 == DictSet(v1, "triage_code", triage_code)
      v3 == DictSet(v2, "triage_instructions", res[1])
  IN DictSet(v3, "get_hospital", res[2])

\* the phone number of the i-th job of the drain scenario
DrainOwner(i) == ((i - 1) % NumIds) + 1

\* M >= NumWorkers verdicts were enqueued and their requests have ended
\* before any worker took a job; a worker that was already waiting has
\* been notified, the others have not reached the with statement yet.
DrainInit ==
  /\ \E M \in NumWorkers..MaxDrain :
       /\ to_respond_queue = [i \in 1..M |-> i]
       /\ obj_uuid = [o \in Objs |-> IF o <= M THEN DrainOwner(o) ELSE None]
       /\ \E codes \in [1..M -> {"home", "LEVEL 1"}], zips \in [1..M -> BOOLEAN] :
            /\ values = [o \in Objs |->
                           IF o <= M
                           THEN Disposed(DrainOwner(o), codes[o], zips[o])
                           ELSE EmptyDict]
            /\ complete = [o \in Objs |-> o <= M /\ zips[o]]
  /\ users = [x \in Identities |-> None]
  /\ user_queue = <<>>
  /\ session = [r \in Reviewers |-> None]
  /\ vpc = [h \in Handlers |-> "idle"]
  /\ vuser = [h \in Handlers |-> None]
  /\ vnum = [h \in Handlers |-> None]
  /\ lock = None
  /\ pc \in [Workers -> {"idle", "notified"}]
  /\ user = [w \in Workers |-> None]
  /\ plan = [w \in Workers |-> 0]
  /\ tries = [w \in Workers |-> 0]
  /\ ncalls = [w \in Workers |-> 0]
  /\ instructions = [w \in Workers |-> <<>>]
  /\ last_pass = NoPass

DrainNext == \E w \in Workers : WorkerStep(w)

\* every worker thread that can take a step eventually takes one
DrainSpec ==
  /\ DrainInit
  /\ [][DrainNext]_vars
  /\ \A w \in Workers : WF_vars(WorkerStep(w))

\* the drain scenario where wait() may also return unprompted
WakeNext ==
  \/ \E w \in Workers : WorkerStep(w)
  \/ \E w \in Workers : SpuriousWake(w)

WakeSpec == DrainInit /\ [][WakeNext]_vars

\* the drain scenario where the external services also fail in other ways
FaultNext ==
  \/ \E w \in Workers : WorkerStep(w)
  \/ \E w \in Workers : PassOther(w)

FaultSpec ==
  /\ DrainInit
  /\ [][FaultNext]_vars
  /\ \A w \in Workers : WF_vars(WorkerStep(w))

\* ------------------------------------------- intake and requeue by itself
\* Patients text in (no RESTART), reviewers open the triage page and send
\* back verdicts without a disposition.  The workers have found
\* to_respond_queue empty and are in wait().
RequeueInit ==
  /\ users = [x \in Identities |-> None]
  /\ obj_uuid = [o \in Objs |-> None]
  /\ values = [o \in Objs |-> EmptyDict]
  /\ complete = [o \in Objs |-> FALSE]
  /\ user_queue = <<>>
  /\ to_respond_queue = <<>>
  /\ session = [r \in Reviewers |-> None]
  /\ vpc = [h \in Handlers |-> "idle"]
  /\ vuser = [h \in Handlers |-> None]
  /\ vnum = [h \in Handlers |-> None]
  /\ lock = None
  /\ pc = [w \in Workers |-> "waiting"]
  /\ user = [w \in Workers |-> None]
  /\ plan = [w \in Workers |-> 0]
  /\ tries = [w \in Workers |-> 0]
  /\ ncalls = [w \in Workers |-> 0]
  /\ instructions = [w \in Workers |-> <<>>]
  /\ last_pass = NoPass

RequeueNext ==
  \/ \E x \in Identities, cont \in BOOLEAN :
       Sms(x, FALSE, cont, AnswersHaveZip(x))
  \/ \E r \in Reviewers : Triaging(r)
  \/ \E h \in Handlers, r \in Reviewers, c \in TriageInputs, x \in Identities,
        saved \in BOOLEAN : VerdictRequeue(h, r, c, x, saved)

RequeueSpec == RequeueInit /\ [][RequeueNext]_vars

\* ================================================================ claims

\* the worker is between two passes over the same job
Retrying(w) == pc[w] = "sleeping" \/ (pc[w] = "pipeline" /\ tries[w] > 0)

\* C1: while one worker is retrying a job after a ValueError (its pause
\* included), every other worker that is at the top of its loop can take
\* the head of a non-empty to_respond_queue.
C1_OthersKeepDequeuing ==
  \A w \in Workers, v \in Workers :
    (w # v /\ Retrying(w) /\ to_respond_queue # <<>> /\ pc[v] = "idle")
      => ENABLED Dequeue(v)

\* C2: the pass that hits a KeyError sends the worker back to the top of
\* its loop (the dequeue step), not into the condition's wait().
C2_AbandonWithoutWaiting ==
  [][\A w \in Workers :
       (pc[w] = "pipeline" /\ last_pass'.w = w /\ last_pass'.result = "abandoned")
         => pc'[w] = "idle"]_vars

\* C3: with M >= NumWorkers jobs queued before any dequeue and no enqueue
\* afterwards, under fair scheduling every job is eventually dequeued.
C3_AllDequeued == <>(to_respond_queue = <<>>)

\* C4: a /verdict request that has reached the with statement of lines
\* 107-109 can always carry out its append and notify.
C4_EnqueueNeverBlocked ==
  \A h \in Handlers : vpc[h] = "enqueue" => ENABLED VerdictEnqueue(h)

\* references to Records of phone number x: entries of a queue, workers
CountIn(q, x) == Cardinality({i \in DOMAIN q : obj_uuid[q[i]] = x})
OwnedBy(x) == Cardinality({w \in Workers : user[w] # None /\ obj_uuid[user[w]] = x})
Refs(x) == CountIn(user_queue, x) + CountIn(to_respond_queue, x) + OwnedBy(x)

\* C5: the Records of one phone number that user_queue, to_respond_queue
\* and the workers refer to are never two, in one queue or across them.
C5_OneHolder == \A x \in Identities : Refs(x) <= 1

\* C6: to_respond_queue is first-in first-out: whatever changes it either
\* appends at the tail or removes the head, and the head removed is the
\* job the dequeuing worker gets; so jobs leave in the order they entered.
C6_Fifo ==
  [][to_respond_queue' # to_respond_queue =>
       \/ \E o \in Objs : to_respond_queue' = Append(to_respond_queue, o)
       \/ /\ to_respond_queue # <<>>
          /\ to_respond_queue' = Tail(to_respond_queue)
          /\ \E w \in Workers : /\ pc[w] = "idle" /\ pc'[w] = "pipeline"
                                /\ user'[w] = Head(to_respond_queue)]_vars

C6_Witness ==
  \E w \in Workers :
    /\ pc[w] = "pipeline" /\ tries[w] = 0
    /\ to_respond_queue # <<>>
    /\ obj_uuid[user[w]] # obj_uuid[Head(to_respond_queue)]

\* C7: an enqueued job is dequeued at most once: a worker gets a job only
\* by a step that takes exactly one entry off to_respond_queue, no other
\* worker gets a job in that step, and jobs are got in no other way.
C7_AtMostOnce ==
  [][\A w \in Workers :
       (user'[w] # user[w] /\ user'[w] # None) =>
         /\ pc[w] = "idle" /\ pc'[w] = "pipeline"
         /\ Len(to_respond_queue') = Len(to_respond_queue) - 1
         /\ \A v \in Workers \ {w} : user'[v] = user[v] /\ pc'[v] = pc[v]]_vars

C7_Witness ==
  \E w \in Workers, v \in Workers :
    /\ w # v /\ HoldsLock(pc[w]) /\ pc[v] = "idle"
    /\ to_respond_queue # <<>>
    /\ user[w] \notin Range(to_respond_queue)

\* the job's values let a pass reach and complete client.messages.create
Sendable(vals) == pipeline(vals, "none").exc = "none"

\* C8: a job whose external calls raise ValueError exactly k times is
\* delivered by the worker that dequeued it on its pass k+1, and a
\* delivery is always that pass.
C8_DeliveredAfterRetries ==
  /\ [](last_pass.result = "sent" => last_pass.tries = last_pass.plan + 1)
  /\ \A w \in Workers, k \in 0..MaxFail :
       (pc[w] = "pipeline" /\ tries[w] = 0 /\ plan[w] = k
          /\ Sendable(values[user[w]]))
         ~> (last_pass.w = w /\ last_pass.result = "sent"
               /\ last_pass.tries = k + 1)

C8_Witness == last_pass.result = "sent" /\ last_pass.tries >= 2

\* C9: the pass that hits a KeyError is the job's last: the notifier was
\* not invoked for the job, the worker neither retries nor keeps it, and
\* no queue gets it back.
C9_AbandonedAtOnce ==
  [][\A w \in Workers :
       (last_pass'.w = w /\ last_pass'.result = "abandoned") =>
         /\ ~last_pass'.called /\ last_pass'.ncalls = 0
         /\ ~HoldsLock(pc'[w]) /\ user'[w] = None
         /\ user_queue' = user_queue
         /\ to_respond_queue' = to_respond_queue]_vars

C9_Witness == last_pass.result = "abandoned" /\ pc[last_pass.w] = "waiting"

\* the entries of q that are not Records of phone number x
Others(q, x) == SelectSeq(q, LAMBDA o : obj_uuid[o] # x)

\* C10: a requeue of phone number x leaves x's Record at the head of
\* user_queue, once, and the other entries in the order they had.
C10_RequeueToFront ==
  [][\A x \in Identities :
       (/\ \E h \in Handlers, r \in Reviewers, c \in TriageInputs, saved \in BOOLEAN :
             VerdictRequeue(h, r, c, x, saved)
        /\ user_queue' # user_queue)
       => /\ obj_uuid[Head(user_queue')] = x
          /\ CountIn(user_queue', x) = 1
          /\ Others(user_queue', x) = Others(user_queue, x)]_vars

\* C11: to_respond_queue never holds two Records of one phone number,
\* whatever verdicts were posted and however they interleave.
C11_OnePerIdentity == \A x \in Identities : CountIn(to_respond_queue, x) <= 1

\* C12: a verdict whose code is not in triage_responses attaches no
\* disposition: to_respond_queue stays as it is, no worker is notified, no
\* field of any Record and no entry of the repository changes, and the
\* Record stored for the phone number goes to the head of user_queue.
C12_MalformedRequeues ==
  [][\A x \in Identities, c \in TriageInputs :
       (/\ c \notin DOMAIN triage_responses
        /\ \E h \in Handlers, r \in Reviewers, saved \in BOOLEAN :
             VerdictRequeue(h, r, c, x, saved))
       => /\ to_respond_queue' = to_respond_queue
          /\ pc' = pc
          /\ values' = values /\ obj_uuid' = obj_uuid /\ complete' = complete
          /\ users' = users
          /\ users[x] # None => user_queue' = <<users[x]>> \o user_queue]_vars

\* a requeued Record is back in user_queue (a second time, since the
\* requeue removes nothing) while the workers wait, and carries no disposition
C12_Witness ==
  /\ \A w \in Workers : pc[w] = "waiting"
  /\ user_queue # <<>>
  /\ CountIn(user_queue, obj_uuid[Head(user_queue)]) = 2
  /\ "triage_instructions" \notin DOMAIN values[Head(user_queue)]

\* occurrences of the object o in the deque q
Occurs(q, o) == Cardinality({i \in DOMAIN q : q[i] = o})

\* C13: the retry is in place and has no cap: no step puts a Record a
\* worker owns back into to_respond_queue; a pass that ends in ValueError
\* leaves the Record with the same worker, which sleeps and then makes the
\* next pass over it, for every number of failures so far.
C13_RetryInPlace ==
  /\ [][\A w \in Workers :
          /\ user[w] # None =>
               Occurs(to_respond_queue', user[w]) <= Occurs(to_respond_queue, user[w])
          /\ (/\ pc[w] = "pipeline" /\ tries[w] < plan[w]
              /\ Sendable(values[user[w]]) /\ pc'[w] # pc[w])
             => /\ pc'[w] = "sleeping" /\ lock' = w
                /\ user'[w] = user[w] /\ tries'[w] = tries[w] + 1
                /\ \A v \in Workers \ {w} : user'[v] = user[v]
          /\ (pc[w] = "sleeping" /\ pc'[w] # pc[w])
             => /\ pc'[w] = "pipeline"
                /\ user'[w] = user[w] /\ tries'[w] = tries[w]]_vars
  /\ \A w \in Workers, k \in 1..MaxFail :
       (pc[w] = "sleeping" /\ tries[w] = k)
         ~> (pc[w] = "pipeline" /\ tries[w] = k)

\* a worker is in pass MaxFail + 1 over its job while other jobs are queued
C13_Witness ==
  \E w \in Workers :
    /\ pc[w] = "pipeline" /\ tries[w] = MaxFail
    /\ Sendable(values[user[w]])
    /\ to_respond_queue # <<>>

\* the Records in to_respond_queue or held by a worker
InFlight == Range(to_respond_queue) \cup ({user[w] : w \in Workers} \ {None})

\* C14: user.values of a Record is not written by any step while the
\* Record is in to_respond_queue or a worker holds it (the workers
\* themselves only read it).
C14_NoWriteInFlight ==
  [][\A o \in InFlight \cap InFlight' : values'[o] = values[o]]_vars

\* C15: verdict deletes the phone number from user_model_repo before it
\* appends the Record: a phone number whose Record is in to_respond_queue
\* or held by a worker has no entry in user_model_repo.users.
C15_DeletedBeforeEnqueue == \A o \in InFlight : users[obj_uuid[o]] = None

\* C16: a worker whose wait() has returned, signalled or not, uses no item
\* on the way: it goes back to the top of its loop, where the queue is
\* looked at again with the lock taken; if the queue is empty it waits
\* again with no job, and the only job a worker ever has is the head it
\* took off to_respond_queue itself, in that step, holding the lock.
C16_RecheckAfterWait ==
  [][\A w \in Workers :
       /\ (pc[w] = "notified" /\ pc'[w] # pc[w])
          => /\ lock = None /\ pc'[w] = "idle" /\ user'[w] = None
             /\ to_respond_queue' = to_respond_queue
       /\ (pc[w] = "idle" /\ to_respond_queue = <<>> /\ pc'[w] # pc[w])
          => /\ pc'[w] = "waiting" /\ user'[w] = None
       /\ (user'[w] # None /\ user'[w] # user[w])
          => /\ pc[w] = "idle" /\ lock = None /\ lock' = w
             /\ to_respond_queue # <<>>
             /\ user'[w] = Head(to_respond_queue)
             /\ to_respond_queue' = Tail(to_respond_queue)
       /\ (pc'[w] \in {"pipeline", "sleeping"}) => user'[w] # None]_vars

\* a worker has been woken and the queue is empty because the other worker
\* took the last job
C16_Witness ==
  \E w \in Workers, v \in Workers :
    /\ w # v
    /\ pc[w] = "notified"
    /\ to_respond_queue = <<>>
    /\ user[v] # None

\* the positions inside do_work's while True
LoopPositions == {"idle", "pipeline", "sleeping", "waiting", "notified"}

\* C17: a worker thread never ends.  Whatever a pass ends with (delivery,
\* ValueError, KeyError, any other exception, an exception in a handler)
\* the thread is still inside its loop; the pass that ends a job leaves it
\* at the dequeue step or in the wait() of that step, and a worker at the
\* dequeue step, or woken there, goes on to take a job or to wait.
C17_WorkersRunForever ==
  /\ [](\A w \in Workers : pc[w] \in LoopPositions)
  /\ [][\A w \in Workers :
          (pc[w] = "pipeline" /\ pc'[w] # pc[w])
            => \/ pc'[w] = "sleeping" /\ user'[w] = user[w]
               \/ pc'[w] \in {"idle", "waiting"} /\ user'[w] = None /\ lock' = None]_vars
  /\ \A w \in Workers :
       (pc[w] \in {"idle", "notified"}) ~> (pc[w] \in {"pipeline", "waiting"})

\* a pass ended with an exception no inner handler matches, and the worker
\* is in wait()
C17_Witness == last_pass.result = "crashed" /\ pc[last_pass.w] = "waiting"

\* C18: whenever to_respond_queue is non-empty some worker is not inside
\* wait() unnotified: it is running, about to take the lock, or notified.
C18_NoStrandedWork ==
  to_respond_queue # <<>> => \E w \in Workers : pc[w] # "waiting"

\* the text a pass over vals hands to client.messages.create when it is the
\* job's first pass and nothing fails
Message(vals) == build_instructions(vals, "none", <<>>)

\* how many times the heading of the care centers occurs in a text
Headings(body) ==
  Cardinality({i \in DOMAIN body :
                 body[i] = "Please choose one of the following care centers:"})

\* C19: the retry is idempotent on the message.  Every pass that reaches
\* client.messages.create, after any number of ValueErrors, hands it the
\* text a first pass without failures would: the stored triage_instructions
\* followed, for a job that needs a care center, by the facility text once;
\* and a pass that ends in ValueError leaves user.values as it was.
C19_RetryIdempotent ==
  [][\A w \in Workers :
       (pc[w] = "pipeline" /\ pc'[w] # pc[w]) =>
         /\ pc'[w] = "sleeping" => values'[user[w]] = values[user[w]]
         /\ ncalls'[w] > ncalls[w] =>
              instructions'[w] = Message(values[user[w]])
         /\ (last_pass'.w = w /\ last_pass'.called) =>
              /\ last_pass'.body = Message(values[user[w]])
              /\ Head(last_pass'.body) = values[user[w]]["triage_instructions"]
              /\ Headings(last_pass'.body) =
                   (IF values[user[w]]["get_hospital"] THEN 1 ELSE 0)]_vars

\* a job that needs a care center was delivered on a later pass than its
\* first
C19_Witness ==
  /\ last_pass.result = "sent" /\ last_pass.tries = MaxFail + 1
  /\ Headings(last_pass.body) = 1

====
